---- MODULE Spec2Model ----
(***************************************************************************)
(* Model of reweighting/reweighting.ipynb: a classifier is trained to tell *)
(* "data" rows (label 0) from "MC" rows (label 1); its output y on the     *)
(* held-out MC rows is turned into weights y / (1 - y), whose reciprocal   *)
(* weights the MC histograms and feeds the effective-sample-size figure.   *)
(*                                                                         *)
(* Every statement of the notebook that assigns a variable is one action;  *)
(* pc is the position in the notebook.  Library calls whose result the     *)
(* notebook does not determine (sampling, np.random.shuffle, Keras fit)    *)
(* are nondeterministic choices.  Feature values are integers (tenths),    *)
(* NumPy floating-point numbers are extended rationals <<num, den>>:       *)
(* den > 0 is an exact finite value, <<1,0>> is inf, <<-1,0>> is -inf and  *)
(* <<0,0>> is nan, so x / 0 behaves as in NumPy (inf or nan, no exception).*)
(* Rounding of finite results is not modelled: arithmetic is exact.        *)
(***************************************************************************)
EXTENDS Integers, Sequences, FiniteSets, Bags, TLC

\* ---- bounds of the model ------------------------------------------------
MaxN == 2        \* largest NSAMPLE (rows drawn per population)
MaxVar1 == 1     \* var1 draws range over 0..MaxVar1
MaxVar2 == 0     \* var2 draws range over 0..MaxVar2
MaxDen == 3      \* classifier outputs are the fractions k/g, g <= MaxDen
MaxLen == 5      \* longest sample handed to the split on its own

VARIABLES pc, NSAMPLE,
          data_var1, data_var2, mc_var1, mc_var2,
          data, mc, sample,
          training_sample, testing_sample, X_train, Y_train,
          testing_sample_mc, testing_sample_data,
          classifier, weights, hist_var1, hist_var2, w, ess, first

vars == <<pc, NSAMPLE, data_var1, data_var2, mc_var1, mc_var2, data, mc,
          sample, training_sample, testing_sample, X_train, Y_train,
          testing_sample_mc, testing_sample_data, classifier, weights,
          hist_var1, hist_var2, w, ess, first>>

\* ---- floating-point values as extended rationals ------------------------
RECURSIVE GCD(_, _)
GCD(a, b) == IF b = 0 THEN a ELSE GCD(b, a % b)

Abs(n) == IF n < 0 THEN -n ELSE n

Sign(n) == IF n < 0 THEN -1 ELSE IF n = 0 THEN 0 ELSE 1

\* n / d in lowest terms with a non-negative denominator
Rat(n, d) ==
    IF d = 0 THEN <<Sign(n), 0>>
    ELSE LET g == GCD(Abs(n), Abs(d))
             s == IF d < 0 THEN -1 ELSE 1
         IN  <<(s * n) \div g, (s * d) \div g>>

Zero == <<0, 1>>
One == <<1, 1>>
Inf == <<1, 0>>
NaN == <<0, 0>>

FromInt(n) == <<n, 1>>
IsNaN(x) == x = NaN
IsFinite(x) == x[2] # 0

Add(a, b) ==
    IF IsNaN(a) \/ IsNaN(b) THEN NaN
    ELSE IF a[2] = 0 /\ b[2] = 0 THEN (IF a = b THEN a ELSE NaN)
    ELSE Rat(a[1] * b[2] + b[1] * a[2], a[2] * b[2])

Neg(a) == <<-a[1], a[2]>>

Sub(a, b) == Add(a, Neg(b))

Mul(a, b) == Rat(a[1] * b[1], a[2] * b[2])

Div(a, b) == Rat(a[1] * b[2], a[2] * b[1])

Less(a, b) == ~IsNaN(a) /\ ~IsNaN(b) /\ a # b /\ a[1] * b[2] < b[1] * a[2]

LessEq(a, b) == ~IsNaN(a) /\ ~IsNaN(b) /\ (a = b \/ Less(a, b))

\* np.sum over a one-dimensional array
RECURSIVE NpSum(_)
NpSum(s) == IF s = <<>> THEN Zero ELSE Add(Head(s), NpSum(Tail(s)))

\* ---- rows ---------------------------------------------------------------
Features(row) == <<row[1], row[2]>>
Label(row) == row[3]

\* np.vstack([a, b, c]).T : row i is (a[i], b[i], c[i])
VstackT(a, b, c) == [i \in 1..Len(a) |-> <<a[i], b[i], c[i]>>]

\* Python s[start:stop] on 0-based positions
PySlice(s, start, stop) == SubSeq(s, start + 1, stop)

\* int(n / 2) rounded up instead of truncated
IntHalfUp(n) == (n + 1) \div 2

\* int(n / 2)
IntHalf(n) == n \div 2

SeqBag(s) == LET idx(v) == {i \in 1..Len(s) : s[i] = v}
             IN  [v \in {s[i] : i \in 1..Len(s)} |-> Cardinality(idx(v))]

\* ---- the notebook --------------------------------------------------------
Init ==
    /\ pc = "start"
    /\ NSAMPLE \in 1..MaxN
    /\ data_var1 = <<>> /\ data_var2 = <<>>
    /\ mc_var1 = <<>> /\ mc_var2 = <<>>
    /\ data = <<>> /\ mc = <<>> /\ sample = <<>>
    /\ training_sample = <<>> /\ testing_sample = <<>>
    /\ X_train = <<>> /\ Y_train = <<>>
    /\ testing_sample_mc = <<>> /\ testing_sample_data = <<>>
    /\ classifier = <<>> /\ weights = <<>>
    /\ hist_var1 = <<>> /\ hist_var2 = <<>>
    /\ w = <<>> /\ ess = NaN
    /\ first = [done |-> FALSE, sample |-> <<>>,
                 training_sample |-> <<>>, testing_sample |-> <<>>]

\* cell "Generate the random data from the model"
Generate ==
    /\ pc = "start"
    /\ data_var1' \in [1..NSAMPLE -> 0..MaxVar1]
    /\ data_var2' \in [1..NSAMPLE -> 0..MaxVar2]
    /\ mc_var1' \in [1..NSAMPLE -> 0..MaxVar1]
    /\ mc_var2' \in [1..NSAMPLE -> 0..MaxVar2]
    /\ pc' = "generated"
    /\ UNCHANGED <<NSAMPLE, data, mc, sample, training_sample,
                   testing_sample, X_train, Y_train, testing_sample_mc,
                   testing_sample_data, classifier, weights, hist_var1,
                   hist_var2, w, ess, first>>

\* a * u + b * v with the coefficients in tenths
Mix(a, u, b, v) == [i \in 1..Len(u) |-> a * u[i] + b * v[i]]

\* cell "Add a rotation to create correlations"
Rotate ==
    /\ pc = "generated"
    /\ data_var1' = Mix(7, data_var1, 3, data_var2)
    /\ data_var2' = Mix(3, data_var1, 7, data_var2)
    /\ mc_var1' = Mix(9, mc_var1, 1, mc_var2)
    /\ mc_var2' = Mix(1, mc_var1, 9, mc_var2)
    /\ pc' = "rotated"
    /\ UNCHANGED <<NSAMPLE, data, mc, sample, training_sample,
                   testing_sample, X_train, Y_train, testing_sample_mc,
                   testing_sample_data, classifier, weights, hist_var1,
                   hist_var2, w, ess, first>>

\* cell "Merge the variables in a single vector, put a flag as the last
\* element"
Merge ==
    /\ pc = "rotated"
    /\ data' = VstackT(data_var1, data_var2, [i \in 1..NSAMPLE |-> 0])
    /\ mc' = VstackT(mc_var1, mc_var2, [i \in 1..NSAMPLE |-> 1])
    /\ pc' = "merged"
    /\ UNCHANGED <<NSAMPLE, data_var1, data_var2, mc_var1, mc_var2, sample,
                   training_sample, testing_sample, X_train, Y_train,
                   testing_sample_mc, testing_sample_data, classifier,
                   weights, hist_var1, hist_var2, w, ess, first>>

\* sample = np.vstack([data, mc])
Vstack ==
    /\ pc = "merged"
    /\ sample' = data \o mc
    /\ pc' = "stacked"
    /\ UNCHANGED <<NSAMPLE, data_var1, data_var2, mc_var1, mc_var2, data, mc,
                   training_sample, testing_sample, X_train, Y_train,
                   testing_sample_mc, testing_sample_data, classifier,
                   weights, hist_var1, hist_var2, w, ess, first>>

\* a shuffle of the feature columns that leaves the label column in place
ShuffledDetached(s) ==
    {[i \in 1..Len(s) |-> <<s[p[i]][1], s[p[i]][2], s[i][3]>>] :
        p \in Permutations(1..Len(s))}

\* the orders np.random.shuffle can leave the rows of s in
Shuffled(s) ==
    {[i \in 1..Len(s) |-> s[p[i]]] : p \in Permutations(1..Len(s))}

\* np.random.shuffle(sample); NSAMPLE = len(sample)
Shuffle ==
    /\ pc = "stacked"
    /\ sample' \in Shuffled(sample)
    /\ NSAMPLE' = Len(sample')
    /\ pc' = "shuffled"
    /\ UNCHANGED <<data_var1, data_var2, mc_var1, mc_var2, data, mc,
                   training_sample, testing_sample, X_train, Y_train,
                   testing_sample_mc, testing_sample_data, classifier,
                   weights, hist_var1, hist_var2, w, ess, first>>

\* a training slice that starts one row late
TrainingSliceLate(s, n) == PySlice(s, IntHalf(n) + 1, Len(s))

TrainingSlice(s, n) == PySlice(s, IntHalf(n), Len(s))

TestingSlice(s, n) == PySlice(s, 0, IntHalf(n))

\* cell "Divide the dataset into training and testing samples"
Split ==
    /\ pc = "shuffled"
    /\ training_sample' = TrainingSlice(sample, NSAMPLE)
    /\ testing_sample' = TestingSlice(sample, NSAMPLE)
    /\ X_train' = [i \in 1..Len(training_sample') |->
                       Features(training_sample'[i])]
    /\ Y_train' = [i \in 1..Len(training_sample') |->
                       Label(training_sample'[i])]
    /\ pc' = "split"
    /\ UNCHANGED <<NSAMPLE, data_var1, data_var2, mc_var1, mc_var2, data, mc,
                   sample, testing_sample_mc, testing_sample_data,
                   classifier, weights, hist_var1, hist_var2, w, ess, first>>

\* rows of s whose label column equals l  (s[s[:, -1] == l])
WithLabel(s, l) == SelectSeq(s, LAMBDA row : Label(row) = l)

\* first two statements of the cell "Plot the variables before the
\* correction"
SelectTest ==
    /\ pc = "split"
    /\ testing_sample_mc' = WithLabel(testing_sample, 1)
    /\ testing_sample_data' = WithLabel(testing_sample, 0)
    /\ pc' = "selected"
    /\ UNCHANGED <<NSAMPLE, data_var1, data_var2, mc_var1, mc_var2, data, mc,
                   sample, training_sample, testing_sample, X_train, Y_train,
                   classifier, weights, hist_var1, hist_var2, w, ess, first>>

\* values a sigmoid output can take: the fractions in [0, 1] with a
\* denominator up to MaxDen, both ends included
YValues == {Rat(k, g) : k \in 0..MaxDen, g \in 1..MaxDen} \ 
           {y \in {Rat(k, g) : k \in 0..MaxDen, g \in 1..MaxDen} :
                Less(One, y)}

\* feature vectors the classifier is later evaluated at
QueryPoints == {Features(testing_sample_mc[i]) :
                    i \in 1..Len(testing_sample_mc)}

\* classifier.fit(X_train, Y_train, epochs=10): the learned function,
\* restricted to the points where the notebook evaluates it
Fit ==
    /\ pc = "selected"
    /\ classifier' \in [QueryPoints -> YValues]
    /\ pc' = "fitted"
    /\ UNCHANGED <<NSAMPLE, data_var1, data_var2, mc_var1, mc_var2, data, mc,
                   sample, training_sample, testing_sample, X_train, Y_train,
                   testing_sample_mc, testing_sample_data, weights,
                   hist_var1, hist_var2, w, ess, first>>

\* classifier.predict(testing_sample_mc[:, :-1])
Predict(rows) == [i \in 1..Len(rows) |-> classifier[Features(rows[i])]]

\* weights * (1 - weights)
WeightProduct(y) == Mul(y, Sub(One, y))

\* weights / (1 + weights)
WeightOverSum(y) == Div(y, Add(One, y))

\* the output clipped away from 1 before the division
WeightClipped(y) ==
    LET top == Rat(MaxDen, MaxDen + 1)
        c == IF Less(top, y) THEN top ELSE y
    IN  Div(c, Sub(One, c))

\* weights / (1 - weights), elementwise
Weight(y) == Div(y, Sub(One, y))

\* cell "Compute the weight on the test sample"
ComputeWeights ==
    /\ pc = "fitted"
    /\ weights' = [i \in 1..Len(testing_sample_mc) |->
                       Weight(Predict(testing_sample_mc)[i])]
    /\ pc' = "weighted"
    /\ UNCHANGED <<NSAMPLE, data_var1, data_var2, mc_var1, mc_var2, data, mc,
                   sample, training_sample, testing_sample, X_train, Y_train,
                   testing_sample_mc, testing_sample_data, classifier,
                   hist_var1, hist_var2, w, ess, first>>

\* a reciprocal that maps a zero weight to zero
RecipGuarded(x) == IF x = Zero THEN Zero ELSE Div(One, x)

\* 1 / weights, elementwise
Recip(x) == Div(One, x)

\* bin of a value v (in tenths) among n equal bins on [lo, hi] (in units);
\* the last bin is closed on the right, values outside fall in no bin
BinOf(v, lo, hi, n) ==
    IF v < 10 * lo \/ v > 10 * hi THEN -1
    ELSE IF v = 10 * hi THEN n - 1
    ELSE ((v - 10 * lo) * n) \div (10 * (hi - lo))

\* hist(rows[:, col], weights=wts, bins=np.linspace(lo, hi, 100)):
\* content of the occupied bins
Hist(rows, col, wts, lo, hi) ==
    LET bin(i) == BinOf(rows[i][col], lo, hi, 99)
        occupied == {bin(i) : i \in 1..Len(rows)} \ {-1}
        RECURSIVE Content(_, _)
        Content(b, i) ==
            IF i = 0 THEN Zero
            ELSE IF bin(i) = b THEN Add(Content(b, i - 1), wts[i])
            ELSE Content(b, i - 1)
    IN  [b \in occupied |-> Content(b, Len(rows))]

Unweighted(rows) == [i \in 1..Len(rows) |-> One]

Panel(col, lo, hi) ==
    [mc_reweighted |-> Hist(testing_sample_mc, col,
                            [i \in 1..Len(weights) |-> Recip(weights[i])],
                            lo, hi),
     data |-> Hist(testing_sample_data, col,
                   Unweighted(testing_sample_data), lo, hi),
     mc |-> Hist(testing_sample_mc, col,
                 Unweighted(testing_sample_mc), lo, hi)]

\* cell "Apply the weights and plot the distributions"
ApplyWeights ==
    /\ pc = "weighted"
    /\ hist_var1' = Panel(1, -2, 4)
    /\ hist_var2' = Panel(2, -1, 7)
    /\ pc' = "plotted"
    /\ UNCHANGED <<NSAMPLE, data_var1, data_var2, mc_var1, mc_var2, data, mc,
                   sample, training_sample, testing_sample, X_train, Y_train,
                   testing_sample_mc, testing_sample_data, classifier,
                   weights, w, ess, first>>

\* np.sum(w) ** 2 / np.sum(w)
EffectiveSizeNoSquare(ws) == Div(Mul(NpSum(ws), NpSum(ws)), NpSum(ws))

\* np.sum(w) ** 2 / np.sum(w ** 2)
EffectiveSize(ws) ==
    Div(Mul(NpSum(ws), NpSum(ws)),
        NpSum([i \in 1..Len(ws) |-> Mul(ws[i], ws[i])]))

\* cell "Compare effective statistics with size of the sample"
EffectiveStatistics ==
    /\ pc = "plotted"
    /\ w' = [i \in 1..Len(weights) |-> Recip(weights[i])]
    /\ ess' = EffectiveSize(w')
    /\ pc' = "done"
    /\ UNCHANGED <<NSAMPLE, data_var1, data_var2, mc_var1, mc_var2, data, mc,
                   sample, training_sample, testing_sample, X_train, Y_train,
                   testing_sample_mc, testing_sample_data, classifier,
                   weights, hist_var1, hist_var2, first>>

Next ==
    \/ Generate
    \/ Rotate
    \/ Merge
    \/ Vstack
    \/ Shuffle
    \/ Split
    \/ SelectTest
    \/ Fit
    \/ ComputeWeights
    \/ ApplyWeights
    \/ EffectiveStatistics

Spec == Init /\ [][Next]_vars

\* ---- the assemble-and-split cells executed a second time ----------------
\* The kernel keeps data and mc; the cells "Create training and testing
\* samples" and "Divide the dataset ..." are run again from them.  first
\* remembers what the first execution produced.
Restart ==
    /\ pc = "split"
    /\ ~first.done
    /\ first' = [done |-> TRUE, sample |-> sample,
                 training_sample |-> training_sample,
                 testing_sample |-> testing_sample]
    /\ pc' = "merged"
    /\ UNCHANGED <<NSAMPLE, data_var1, data_var2, mc_var1, mc_var2, data, mc,
                   sample, training_sample, testing_sample, X_train, Y_train,
                   testing_sample_mc, testing_sample_data, classifier,
                   weights, hist_var1, hist_var2, w, ess>>

NextRerun ==
    \/ Generate
    \/ Rotate
    \/ Merge
    \/ Vstack
    \/ Shuffle
    \/ Split
    \/ Restart

SpecRerun == Init /\ [][NextRerun]_vars

\* ---- the split on a sample of any length --------------------------------
\* rows the two populations can contribute
RowValues ==
    {<<7 * a + 3 * b, 3 * a + 7 * b, 0>> : a \in 0..MaxVar1, b \in 0..MaxVar2}
    \cup
    {<<9 * a + b, a + 9 * b, 1>> : a \in 0..MaxVar1, b \in 0..MaxVar2}

\* the state after the shuffle cell for a sample of any length up to MaxLen,
\* odd lengths included (as after unequal selections of data and mc)
InitSplit ==
    /\ pc = "shuffled"
    /\ sample \in UNION {[1..n -> RowValues] : n \in 0..MaxLen}
    /\ NSAMPLE = Len(sample)
    /\ data_var1 = <<>> /\ data_var2 = <<>>
    /\ mc_var1 = <<>> /\ mc_var2 = <<>>
    /\ data = <<>> /\ mc = <<>>
    /\ training_sample = <<>> /\ testing_sample = <<>>
    /\ X_train = <<>> /\ Y_train = <<>>
    /\ testing_sample_mc = <<>> /\ testing_sample_data = <<>>
    /\ classifier = <<>> /\ weights = <<>>
    /\ hist_var1 = <<>> /\ hist_var2 = <<>>
    /\ w = <<>> /\ ess = NaN
    /\ first = [done |-> FALSE, sample |-> <<>>,
                training_sample |-> <<>>, testing_sample |-> <<>>]

NextSplit ==
    \/ Split
    \/ SelectTest

SpecSplit == InitSplit /\ [][NextSplit]_vars

\* ---- properties ----------------------------------------------------------
\* classifier output for the i-th held-out MC row
Y(i) == classifier[Features(testing_sample_mc[i])]

Weighted == pc \in {"weighted", "plotted", "done"}

Plotted == pc \in {"plotted", "done"}

HalfGivesUnitWeight ==
    /\ Weighted =>
           \A i \in 1..Len(weights) : Y(i) = Rat(1, 2) => weights[i] = One
    /\ pc = "done" =>
           \A i \in 1..Len(w) : Y(i) = Rat(1, 2) => w[i] = One
    /\ (Plotted /\ \A i \in 1..Len(weights) : Y(i) = Rat(1, 2)) =>
           /\ hist_var1.mc_reweighted = hist_var1.mc
           /\ hist_var2.mc_reweighted = hist_var2.mc

HalfGivesUnitWeightWitness ==
    /\ pc = "done"
    /\ Len(w) >= 1
    /\ \A i \in 1..Len(w) : Y(i) = Rat(1, 2)

AllPositive(ws) ==
    \A i \in 1..Len(ws) : IsFinite(ws[i]) /\ Less(Zero, ws[i])

AllEqual(ws) == \A i, j \in 1..Len(ws) : ws[i] = ws[j]

UnitOutputGivesNonFiniteWeight ==
    Weighted =>
        \A i \in 1..Len(weights) : Y(i) = One => ~IsFinite(weights[i])

UnitOutputGivesNonFiniteWeightWitness ==
    /\ pc = "done"
    /\ \E i \in 1..Len(weights) : Y(i) = One

\* C10: the factor applied to an MC row is 1/w = (1 - y) / y: finite and
\* strictly positive for 0 < y < 1; for y = 0 the weight is the finite value
\* 0 and the factor is a division by zero, in the histograms and in the
\* effective-sample-size input alike.
FactorSingularAtZero ==
    /\ pc = "done" =>
           \A i \in 1..Len(w) :
               /\ (Less(Zero, Y(i)) /\ Less(Y(i), One)) =>
                      /\ IsFinite(w[i])
                      /\ Less(Zero, w[i])
                      /\ w[i] = Rat(Y(i)[2] - Y(i)[1], Y(i)[1])
               /\ Y(i) = Zero => (weights[i] = Zero /\ ~IsFinite(w[i]))
    /\ Plotted =>
           \A i \in 1..Len(weights) :
               Y(i) = Zero =>
                   ~IsFinite(hist_var1.mc_reweighted[
                                 BinOf(testing_sample_mc[i][1], -2, 4, 99)])

FactorSingularAtZeroWitness ==
    /\ pc = "done"
    /\ \E i, j \in 1..Len(w) :
           Y(i) = Zero /\ Less(Zero, Y(j)) /\ Less(Y(j), One)

\* ---- the training objective ---------------------------------------------
\* loss='binary_crossentropy' on (X_train, Y_train): exp(-(sum of the
\* per-row cross-entropies)) of c over the first i training rows, i.e. the
\* product over the rows of c[x] where the label is 1 and of 1 - c[x] where
\* it is 0.  The loss is smallest where this product is largest.
RECURSIVE Likelihood(_, _)
Likelihood(c, i) ==
    IF i = 0 THEN One
    ELSE LET x == X_train[i]
             p == IF x \notin DOMAIN c THEN One
                  ELSE IF Y_train[i] = 1 THEN c[x]
                  ELSE Sub(One, c[x])
         IN  Mul(p, Likelihood(c, i - 1))

\* c has the smallest binary cross-entropy among the functions Fit can return
MinimisesLoss(c) ==
    \A other \in [DOMAIN c -> YValues] :
        LessEq(Likelihood(other, Len(X_train)), Likelihood(c, Len(X_train)))

\* number of rows of s with features x and label l
Count(s, x, l) ==
    Cardinality({i \in 1..Len(s) : Features(s[i]) = x /\ Label(s[i]) = l})

Fitted == pc \in {"fitted", "weighted", "plotted", "done"}

\* C4: the output y that the weight calculator uses is the probability that
\* the row is data (label 0): a classifier that minimises the training loss
\* returns, at every point it was trained on, the fraction of data rows
\* among the training rows at that point.
OutputIsDataProbability ==
    (Fitted /\ MinimisesLoss(classifier)) =>
        \A x \in DOMAIN classifier :
            LET d == Count(training_sample, x, 0)
                m == Count(training_sample, x, 1)
            IN  d + m > 0 => classifier[x] = Rat(d, d + m)

\* what the code does instead: the output is the fraction of MC rows
\* (label 1), the class the sigmoid output is trained towards
OutputIsMcProbability ==
    (Fitted /\ MinimisesLoss(classifier)) =>
        \A x \in DOMAIN classifier :
            LET d == Count(training_sample, x, 0)
                m == Count(training_sample, x, 1)
            IN  d + m > 0 => classifier[x] = Rat(m, d + m)

\* ---- calibration on the held-out half -----------------------------------
\* the output at every evaluated point is the fraction of label-1 rows
\* among the held-out rows at that point
Calibrated ==
    \A x \in DOMAIN classifier :
        classifier[x] = Rat(Count(testing_sample, x, 1),
                            Count(testing_sample, x, 0)
                                + Count(testing_sample, x, 1))

\* every feature vector of the held-out half occurs there with both labels
FullOverlap ==
    \A i \in 1..Len(testing_sample) :
        /\ Count(testing_sample, Features(testing_sample[i]), 0) >= 1
        /\ Count(testing_sample, Features(testing_sample[i]), 1) >= 1

\* sum of the bin contents of a histogram
RECURSIVE SumOver(_, _)
SumOver(h, bins) ==
    IF bins = {} THEN Zero
    ELSE LET b == CHOOSE b \in bins : TRUE
         IN  Add(h[b], SumOver(h, bins \ {b}))

Integral(h) == SumOver(h, DOMAIN h)

SplitDone == pc \in {"split", "selected"}

\* C6: for a sample of any length N the held-out half is the first
\* floor(N/2) rows and the training half is all the remaining rows, so each
\* row position is in exactly one of them; the rows given to fit are the
\* rows after position floor(N/2) and the rows later given to predict are
\* among the rows up to that position.
SplitPartitionsRows ==
    SplitDone =>
        LET n == Len(sample)
            h == Len(testing_sample)
        IN  /\ 2 * h <= n /\ n <= 2 * h + 1
            /\ Len(training_sample) + h = n
            /\ testing_sample \o training_sample = sample
            /\ Len(X_train) = n - h /\ Len(Y_train) = n - h
            /\ \A i \in 1..(n - h) :
                   /\ X_train[i] = <<sample[h + i][1], sample[h + i][2]>>
                   /\ Y_train[i] = sample[h + i][3]
            /\ pc = "selected" =>
                   testing_sample_mc =
                       SelectSeq(SubSeq(sample, 1, h),
                                 LAMBDA row : row[3] = 1)

SplitPartitionsRowsWitness ==
    /\ pc = "selected"
    /\ Len(sample) = 5
    /\ Len(testing_sample_mc) >= 1

\* C7: two executions of the assemble-and-split cells from the same data
\* and mc produce the same training_sample and the same testing_sample.
SplitSameInBothExecutions ==
    (pc = "split" /\ first.done) =>
        /\ training_sample = first.training_sample
        /\ testing_sample = first.testing_sample

\* C7, amended: the two executions produce halves of the same sizes that
\* together hold the same multiset of rows, and the same halves whenever
\* the shuffle left the rows in the same order.
SplitSameUpToShuffle ==
    (pc = "split" /\ first.done) =>
        /\ Len(training_sample) = Len(first.training_sample)
        /\ Len(testing_sample) = Len(first.testing_sample)
        /\ SeqBag(training_sample) (+) SeqBag(testing_sample)
               = SeqBag(first.training_sample) (+) SeqBag(first.testing_sample)
        /\ sample = first.sample =>
               /\ training_sample = first.training_sample
               /\ testing_sample = first.testing_sample

SplitSameUpToShuffleWitness ==
    /\ pc = "split"
    /\ first.done
    /\ sample # first.sample
    /\ testing_sample # first.testing_sample

\* ---- labels --------------------------------------------------------------
\* the rows as they were built: features of the i-th data draw with label
\* 0, features of the i-th MC draw with label 1
OriginRows ==
    [i \in 1..Len(data_var1) |-> <<data_var1[i], data_var2[i], 0>>]
    \o [i \in 1..Len(mc_var1) |-> <<mc_var1[i], mc_var2[i], 1>>]

LabelsOf(s) == {s[i][3] : i \in 1..Len(s)}

\* C8: after assembly every row's last column is 0 or 1 and is the origin
\* of the row's features: the stacked sample is the data rows followed by
\* the MC rows, the shuffled sample and the two halves together hold the
\* same multiset of rows, and the held-out MC and data selections hold the
\* held-out rows with label 1 and 0.
LabelsFollowRows ==
    /\ pc = "stacked" => sample = OriginRows
    /\ pc \in {"shuffled", "split", "selected", "fitted", "weighted",
               "plotted", "done"} =>
           /\ SeqBag(sample) = SeqBag(OriginRows)
           /\ LabelsOf(sample) \subseteq {0, 1}
    /\ pc \in {"split", "selected", "fitted", "weighted", "plotted",
               "done"} =>
           /\ SeqBag(training_sample) (+) SeqBag(testing_sample)
                  = SeqBag(OriginRows)
           /\ LabelsOf(training_sample) \subseteq {0, 1}
           /\ LabelsOf(testing_sample) \subseteq {0, 1}
    /\ pc \in {"selected", "fitted", "weighted", "plotted", "done"} =>
           /\ SeqBag(testing_sample_mc) (+) SeqBag(testing_sample_data)
                  = SeqBag(testing_sample)
           /\ LabelsOf(testing_sample_mc) \subseteq {1}
           /\ LabelsOf(testing_sample_data) \subseteq {0}

LabelsFollowRowsWitness ==
    /\ pc = "selected"
    /\ sample # OriginRows
    /\ Len(testing_sample_mc) >= 1
    /\ Len(testing_sample_data) >= 1

====
